---- MODULE Spec2Model ----
(***************************************************************************)
(* The escrow program of programs/escrow-program/src/lib.rs: the three     *)
(* instructions initialize_escrow, cancel_escrow and exchange, the account *)
(* validation Anchor derives from the three #[derive(Accounts)] structs,   *)
(* and the token ledger (transfer, set_authority, close_account) the       *)
(* instructions drive by CPI.  One transaction is one atomic step: the     *)
(* host keeps its writes only if the instruction returns Ok.               *)
(***************************************************************************)
EXTENDS Integers, FiniteSets, Sequences, TLC

\* ---------------------------------------------------------------- bounds
\* Largest amount an instruction argument or an initial balance takes.
MaxAmount == 2
\* Number of addresses at which a zeroed escrow account was allocated.
NumRecords == 2

\* -------------------------------------------------------------- universe
\* Wallet keys that can sign a transaction.
Keys == {"I", "T"}
\* Pubkey::find_program_address(&[ESCROW_PDA_SEED], program_id): an address
\* without a private key; only the program signs for it (with_signer).
vault_authority == "PDA"
Mints == {"A", "B"}
\* The address anchor derives from seeds = [b"token-seed"] and the canonical bump.
VaultAddress == "vault"
UserAccounts == {"iDep", "iRec", "tDep", "tRec"}
TokenAccounts == UserAccounts \cup {VaultAddress}
Records == 1..NumRecords
Amounts == 0..MaxAmount
Bumps == {"canonical", "other"}

NoKey == "none"
NoToken == [exists |-> FALSE, mint |-> "none", owner |-> NoKey, amount |-> 0]
Token(m, o, n) == [exists |-> TRUE, mint |-> m, owner |-> o, amount |-> n]

\* struct EscrowAccount, plus the state of the account that holds it:
\* "zero" (allocated, discriminator still zero), "open", "closed".
NoRecord(st) ==
    [state |-> st,
     initializer_key |-> NoKey,
     initializer_deposit_token_account |-> "none",
     initializer_receive_token_account |-> "none",
     initializer_amount |-> 0,
     taker_amount |-> 0]

VARIABLES
    tok,      \* the token ledger: TokenAccounts -> token account
    rec,      \* the escrow accounts: Records -> EscrowAccount
    last,     \* the transaction the host executed last, with its outcome
    pre,      \* tok and rec as they were before that transaction
    closes,   \* Records -> how many Cancel/Exchange succeeded against it
    race      \* two transactions submitted together, and how they ended

vars == <<tok, rec, last, pre, closes, race>>

\* ---------------------------------------------------------- token ledger
\* A transaction in progress: the working copy of the accounts, whether every
\* step so far returned Ok, the first error, the ledger calls issued (calls)
\* and those of them that returned Ok (done).
Begin ==
    [tok |-> tok, rec |-> rec, ok |-> TRUE, err |-> "ok", calls |-> 0, done |-> 0]

\* A ledger call was issued and returned `e`.
Called(s, e) ==
    IF e = "ok" THEN [s EXCEPT !.calls = @ + 1, !.done = @ + 1]
    ELSE [s EXCEPT !.calls = @ + 1, !.ok = FALSE, !.err = e]

Err(s, e) == IF s.ok THEN [s EXCEPT !.ok = FALSE, !.err = e] ELSE s

\* `cond` must hold or the instruction returns `e` (the ? operator: every
\* later step is skipped).
Require(s, cond, e) == IF s.ok /\ ~cond THEN Err(s, e) ELSE s

\* TransferError without the check that `authority` owns the source.
TransferError_any_owner(t, from, to, authority, signers, amount) ==
    IF ~t[from].exists \/ ~t[to].exists THEN "UninitializedAccount"
    ELSE IF t[from].amount < amount THEN "InsufficientFunds"
    ELSE IF t[from].mint # t[to].mint THEN "MintMismatch"
    ELSE IF authority \notin signers THEN "MissingRequiredSignature"
    ELSE "ok"

\* spl_token Transfer: source and destination exist and share a mint, the
\* source holds `amount`, `authority` owns the source and signed.
TransferError(t, from, to, authority, signers, amount) ==
    IF ~t[from].exists \/ ~t[to].exists THEN "UninitializedAccount"
    ELSE IF t[from].amount < amount THEN "InsufficientFunds"
    ELSE IF t[from].mint # t[to].mint THEN "MintMismatch"
    ELSE IF t[from].owner # authority THEN "OwnerMismatch"
    ELSE IF authority \notin signers THEN "MissingRequiredSignature"
    ELSE "ok"

transfer(s, from, to, authority, signers, amount) ==
    IF ~s.ok THEN s
    ELSE LET e == TransferError(s.tok, from, to, authority, signers, amount)
         IN IF e # "ok" \/ from = to THEN Called(s, e)
            ELSE [Called(s, e) EXCEPT !.tok = [@ EXCEPT ![from].amount = @ - amount,
                                                        ![to].amount = @ + amount]]

\* spl_token SetAuthority(AccountOwner): only the current owner, signing.
set_authority(s, account, current_authority, signers, new_authority) ==
    IF ~s.ok THEN s
    ELSE IF ~s.tok[account].exists THEN Called(s, "UninitializedAccount")
    ELSE IF s.tok[account].owner # current_authority THEN Called(s, "OwnerMismatch")
    ELSE IF current_authority \notin signers
         THEN Called(s, "MissingRequiredSignature")
    ELSE [Called(s, "ok") EXCEPT !.tok[account].owner = new_authority]

\* close_account without the check that the account is empty.
close_account_any_balance(s, account, authority, signers) ==
    IF ~s.ok THEN s
    ELSE IF ~s.tok[account].exists THEN Called(s, "UninitializedAccount")
    ELSE IF s.tok[account].owner # authority THEN Called(s, "OwnerMismatch")
    ELSE IF authority \notin signers THEN Called(s, "MissingRequiredSignature")
    ELSE [Called(s, "ok") EXCEPT !.tok[account] = NoToken]

\* spl_token CloseAccount: only an empty account, only by its owner, signing.
close_account(s, account, authority, signers) ==
    IF ~s.ok THEN s
    ELSE IF ~s.tok[account].exists THEN Called(s, "UninitializedAccount")
    ELSE IF s.tok[account].amount # 0 THEN Called(s, "NonNativeHasBalance")
    ELSE IF s.tok[account].owner # authority THEN Called(s, "OwnerMismatch")
    ELSE IF authority \notin signers THEN Called(s, "MissingRequiredSignature")
    ELSE [Called(s, "ok") EXCEPT !.tok[account] = NoToken]

\* with_signer(&[authority_seeds]): the CPI also carries the program's
\* signature for the derived address.
with_signer(signers) == signers \cup {vault_authority}

\* close_escrow with the `close = initializer` attribute left out.
close_escrow_skipped(s, e) == s

\* close_escrow leaving a zeroed account behind instead of a closed one.
close_escrow_zeroed(s, e) ==
    IF ~s.ok THEN s ELSE [s EXCEPT !.rec[e] = NoRecord("zero")]

\* close_escrow marking the deal settled by clearing initializer_amount
\* instead of closing the account.
close_escrow_cleared(s, e) ==
    IF ~s.ok THEN s ELSE [s EXCEPT !.rec[e].initializer_amount = 0]

\* #[account(... close = initializer)]: the escrow account is closed on exit.
close_escrow(s, e) ==
    IF ~s.ok THEN s ELSE [s EXCEPT !.rec[e] = NoRecord("closed")]

\* InitializeEscrow without #[account(zero)] on escrow_account.
InitializeEscrow_not_zero(s, a) ==
    LET dep == a.initializer_deposit_token_account
        s1 == Require(s, a.initializer = a.signer, "ConstraintSigner")
        s2 == Require(s1, a.vault_account_bump = "canonical", "ConstraintSeeds")
        s3 == Require(s2, ~s.tok[VaultAddress].exists, "AccountAlreadyInUse")
        s4 == IF s3.ok
              THEN [s3 EXCEPT !.tok[VaultAddress] = Token(a.mint, a.initializer, 0)]
              ELSE s3
        s5 == Require(s4, s4.tok[dep].exists, "AccountNotInitialized")
        s6 == Require(s5, s5.tok[dep].amount >= a.initializer_amount, "ConstraintRaw")
    IN  Require(s6, s6.tok[a.initializer_receive_token_account].exists,
                "AccountNotInitialized")

\* InitializeEscrow creating the vault without the check that its address is
\* free.
InitializeEscrow_in_use(s, a) ==
    LET dep == a.initializer_deposit_token_account
        s1 == Require(s, a.initializer = a.signer, "ConstraintSigner")
        s2 == Require(s1, a.vault_account_bump = "canonical", "ConstraintSeeds")
        s4 == IF s2.ok
              THEN [s2 EXCEPT !.tok[VaultAddress] = Token(a.mint, a.initializer, 0)]
              ELSE s2
        s5 == Require(s4, s4.tok[dep].exists, "AccountNotInitialized")
        s6 == Require(s5, s5.tok[dep].amount >= a.initializer_amount, "ConstraintRaw")
        s7 == Require(s6, s6.tok[a.initializer_receive_token_account].exists,
                      "AccountNotInitialized")
    IN  Require(s7, s7.rec[a.escrow_account].state = "zero", "ConstraintZero")

\* ------------------------------------------------------------ initialize
\* #[derive(Accounts)] struct InitializeEscrow: the checks anchor generates
\* from the attributes, run before the handler (the first that fails aborts
\* the instruction); `init` creates the vault token account at the address
\* derived from the seeds and the canonical bump.
InitializeEscrow(s, a) ==
    LET dep == a.initializer_deposit_token_account
        s1 == Require(s, a.initializer = a.signer, "ConstraintSigner")
        s2 == Require(s1, a.vault_account_bump = "canonical", "ConstraintSeeds")
        s3 == Require(s2, ~s.tok[VaultAddress].exists, "AccountAlreadyInUse")
        s4 == IF s3.ok
              THEN [s3 EXCEPT !.tok[VaultAddress] = Token(a.mint, a.initializer, 0)]
              ELSE s3
        s5 == Require(s4, s4.tok[dep].exists, "AccountNotInitialized")
        s6 == Require(s5, s5.tok[dep].amount >= a.initializer_amount, "ConstraintRaw")
        s7 == Require(s6, s6.tok[a.initializer_receive_token_account].exists,
                      "AccountNotInitialized")
    IN  Require(s7, s7.rec[a.escrow_account].state = "zero", "ConstraintZero")

\* initialize_escrow without the token::set_authority call.
initialize_escrow_keeps_owner(s, a) ==
    LET s1 == IF s.ok
              THEN [s EXCEPT !.rec[a.escrow_account] =
                      [state |-> "open",
                       initializer_key |-> a.initializer,
                       initializer_deposit_token_account |->
                           a.initializer_deposit_token_account,
                       initializer_receive_token_account |->
                           a.initializer_receive_token_account,
                       initializer_amount |-> a.initializer_amount,
                       taker_amount |-> a.taker_amount]]
              ELSE s
    IN  transfer(s1, a.initializer_deposit_token_account, VaultAddress,
                 a.initializer, {a.signer}, a.initializer_amount)

\* fn initialize_escrow
initialize_escrow(s, a) ==
    LET s1 == IF s.ok
              THEN [s EXCEPT !.rec[a.escrow_account] =
                      [state |-> "open",
                       initializer_key |-> a.initializer,
                       initializer_deposit_token_account |->
                           a.initializer_deposit_token_account,
                       initializer_receive_token_account |->
                           a.initializer_receive_token_account,
                       initializer_amount |-> a.initializer_amount,
                       taker_amount |-> a.taker_amount]]
              ELSE s
        s2 == set_authority(s1, VaultAddress, a.initializer, {a.signer},
                            vault_authority)
    IN  transfer(s2, a.initializer_deposit_token_account, VaultAddress,
                 a.initializer, {a.signer}, a.initializer_amount)

\* CancelEscrow without the constraint on escrow_account.initializer_key.
CancelEscrow_any_key(s, a) ==
    LET r  == s.rec[a.escrow_account]
        s1 == Require(s, a.initializer = a.signer, "ConstraintSigner")
        s2 == Require(s1, s.tok[a.initializer_deposit_token_account].exists,
                      "AccountNotInitialized")
        s3 == Require(s2, s.tok[a.vault_account].exists, "AccountNotInitialized")
        s4 == Require(s3, r.state = "open", "AccountDiscriminatorMismatch")
    IN  Require(s4, r.initializer_deposit_token_account =
                        a.initializer_deposit_token_account, "ConstraintRaw")

\* ---------------------------------------------------------------- cancel
\* #[derive(Accounts)] struct CancelEscrow
CancelEscrow(s, a) ==
    LET r  == s.rec[a.escrow_account]
        s1 == Require(s, a.initializer = a.signer, "ConstraintSigner")
        s2 == Require(s1, s.tok[a.initializer_deposit_token_account].exists,
                      "AccountNotInitialized")
        s3 == Require(s2, s.tok[a.vault_account].exists, "AccountNotInitialized")
        s4 == Require(s3, r.state = "open", "AccountDiscriminatorMismatch")
        s5 == Require(s4, r.initializer_key = a.initializer, "ConstraintRaw")
    IN  Require(s5, r.initializer_deposit_token_account =
                        a.initializer_deposit_token_account, "ConstraintRaw")

\* cancel_escrow refunding taker_amount instead of initializer_amount.
cancel_escrow_refunds_asked(s, a) ==
    LET r  == s.rec[a.escrow_account]
        s1 == transfer(s, a.vault_account, a.initializer_deposit_token_account,
                       a.vault_authority, with_signer({a.signer}),
                       r.taker_amount)
        s2 == close_account(s1, a.vault_account, a.vault_authority,
                            with_signer({a.signer}))
    IN  close_escrow(s2, a.escrow_account)

\* fn cancel_escrow, then the `close = initializer` of the escrow account
cancel_escrow(s, a) ==
    LET r  == s.rec[a.escrow_account]
        s1 == transfer(s, a.vault_account, a.initializer_deposit_token_account,
                       a.vault_authority, with_signer({a.signer}),
                       r.initializer_amount)
        s2 == close_account(s1, a.vault_account, a.vault_authority,
                            with_signer({a.signer}))
    IN  close_escrow(s2, a.escrow_account)

\* Exchange without the constraint taker_amount <= taker deposit amount.
Exchange_unfunded(s, a) ==
    LET r  == s.rec[a.escrow_account]
        s1 == Require(s, a.taker = a.signer, "ConstraintSigner")
        s2 == Require(s1, /\ s.tok[a.taker_deposit_token_account].exists
                          /\ s.tok[a.taker_receive_token_account].exists
                          /\ s.tok[a.initializer_deposit_token_account].exists
                          /\ s.tok[a.initializer_receive_token_account].exists,
                      "AccountNotInitialized")
        s3 == Require(s2, r.state = "open", "AccountDiscriminatorMismatch")
        s5 == Require(s3, r.initializer_deposit_token_account =
                              a.initializer_deposit_token_account, "ConstraintRaw")
        s6 == Require(s5, r.initializer_receive_token_account =
                              a.initializer_receive_token_account, "ConstraintRaw")
        s7 == Require(s6, r.initializer_key = a.initializer, "ConstraintRaw")
    IN  Require(s7, s.tok[a.vault_account].exists, "AccountNotInitialized")

\* Exchange without the constraint on initializer_receive_token_account.
Exchange_any_receive(s, a) ==
    LET r  == s.rec[a.escrow_account]
        s1 == Require(s, a.taker = a.signer, "ConstraintSigner")
        s2 == Require(s1, /\ s.tok[a.taker_deposit_token_account].exists
                          /\ s.tok[a.taker_receive_token_account].exists
                          /\ s.tok[a.initializer_deposit_token_account].exists
                          /\ s.tok[a.initializer_receive_token_account].exists,
                      "AccountNotInitialized")
        s3 == Require(s2, r.state = "open", "AccountDiscriminatorMismatch")
        s4 == Require(s3, r.taker_amount <=
                              s.tok[a.taker_deposit_token_account].amount,
                      "ConstraintRaw")
        s5 == Require(s4, r.initializer_deposit_token_account =
                              a.initializer_deposit_token_account, "ConstraintRaw")
        s7 == Require(s5, r.initializer_key = a.initializer, "ConstraintRaw")
    IN  Require(s7, s.tok[a.vault_account].exists, "AccountNotInitialized")

\* -------------------------------------------------------------- exchange
\* #[derive(Accounts)] struct Exchange
Exchange(s, a) ==
    LET r  == s.rec[a.escrow_account]
        s1 == Require(s, a.taker = a.signer, "ConstraintSigner")
        s2 == Require(s1, /\ s.tok[a.taker_deposit_token_account].exists
                          /\ s.tok[a.taker_receive_token_account].exists
                          /\ s.tok[a.initializer_deposit_token_account].exists
                          /\ s.tok[a.initializer_receive_token_account].exists,
                      "AccountNotInitialized")
        s3 == Require(s2, r.state = "open", "AccountDiscriminatorMismatch")
        s4 == Require(s3, r.taker_amount <=
                              s.tok[a.taker_deposit_token_account].amount,
                      "ConstraintRaw")
        s5 == Require(s4, r.initializer_deposit_token_account =
                              a.initializer_deposit_token_account, "ConstraintRaw")
        s6 == Require(s5, r.initializer_receive_token_account =
                              a.initializer_receive_token_account, "ConstraintRaw")
        s7 == Require(s6, r.initializer_key = a.initializer, "ConstraintRaw")
    IN  Require(s7, s.tok[a.vault_account].exists, "AccountNotInitialized")

\* exchange without the transfer of the taker's payment.
exchange_unpaid(s, a) ==
    LET r  == s.rec[a.escrow_account]
        s2 == transfer(s, a.vault_account, a.taker_receive_token_account,
                       a.vault_authority, with_signer({a.signer}),
                       r.initializer_amount)
        s3 == close_account(s2, a.vault_account, a.vault_authority,
                            with_signer({a.signer}))
    IN  close_escrow(s3, a.escrow_account)

\* exchange with the result of the payment transfer dropped (no `?`).
exchange_unchecked(s, a) ==
    LET r  == s.rec[a.escrow_account]
        p  == transfer(s, a.taker_deposit_token_account,
                       a.initializer_deposit_token_account,
                       a.taker, {a.signer}, r.taker_amount)
        s1 == IF p.ok THEN p ELSE s
        s2 == transfer(s1, a.vault_account, a.taker_receive_token_account,
                       a.vault_authority, with_signer({a.signer}),
                       r.initializer_amount)
        s3 == close_account(s2, a.vault_account, a.vault_authority,
                            with_signer({a.signer}))
    IN  close_escrow(s3, a.escrow_account)

\* fn exchange, then the `close = initializer` of the escrow account
exchange(s, a) ==
    LET r  == s.rec[a.escrow_account]
        s1 == transfer(s, a.taker_deposit_token_account,
                       a.initializer_deposit_token_account,
                       a.taker, {a.signer}, r.taker_amount)
        s2 == transfer(s1, a.vault_account, a.taker_receive_token_account,
                       a.vault_authority, with_signer({a.signer}),
                       r.initializer_amount)
        s3 == close_account(s2, a.vault_account, a.vault_authority,
                            with_signer({a.signer}))
    IN  close_escrow(s3, a.escrow_account)

\* ------------------------------------------------------------------ host
\* The host keeps a transaction's writes only if the instruction returned Ok.
Commit(s) ==
    IF s.ok THEN [tok |-> s.tok, rec |-> s.rec] ELSE [tok |-> tok, rec |-> rec]

Idle ==
    [op |-> "none", a |-> <<>>, ok |-> TRUE, err |-> "ok", calls |-> 0, done |-> 0]

\* The host admits one transaction at a time.
Admitting == last.op = "none"

\* No two transactions were submitted together yet.
NoRace ==
    [submitted |-> FALSE, cancel |-> <<>>, exchange |-> <<>>,
     pending |-> {}, won |-> {}, tok |-> <<>>, rec |-> <<>>]

Execute(op, a, s) ==
    /\ tok' = Commit(s).tok
    /\ rec' = Commit(s).rec
    /\ last' = [op |-> op, a |-> a, ok |-> s.ok, err |-> s.err,
                calls |-> s.calls, done |-> s.done]
    /\ pre' = [tok |-> tok, rec |-> rec]
    /\ closes' = IF s.ok /\ op \in {"cancel", "exchange"}
                 THEN [closes EXCEPT ![a.escrow_account] = @ + 1]
                 ELSE closes

\* ---------------------------------------------------------------- inputs
\* An argument the instruction only compares with a field of the escrow
\* account: the stored value, or one other value (every other value is
\* rejected by the same constraint); one value when the escrow account holds
\* no Record (the instruction is rejected when the account is loaded).
Bound(x, S) ==
    IF x \in S THEN {x, CHOOSE y \in S : y # x} ELSE {CHOOSE y \in S : TRUE}

\* Who signs the transaction and which key the instruction names as the
\* initializer (or taker): the same key, or a key that did not sign.
Callers == [signer : Keys, named : Keys]

\* The accounts key I offers as deposit or receive account of a deal.
DealAccounts == {"iDep", "iRec"}

\* The authorities a Cancel or an Exchange names for the vault: the derived
\* address, or the key that signed.
Authorities(signer) == {vault_authority, signer}

\* The initializer's accounts and key as the escrow account stores them.
Stored(e) ==
    [dep |-> rec[e].initializer_deposit_token_account,
     rcv |-> rec[e].initializer_receive_token_account,
     key |-> rec[e].initializer_key]

\* The initializer's accounts and key an Exchange may name instead.
Bindings(e) ==
    [dep : Bound(rec[e].initializer_deposit_token_account, DealAccounts),
     rcv : Bound(rec[e].initializer_receive_token_account, DealAccounts),
     key : Bound(rec[e].initializer_key, Keys)]

\* The accounts a taker pays from: its own, the initializer's, the vault.
PayAccounts == {"tDep", "tRec", "iDep", VaultAddress}

\* The escrow accounts an Initialize names: one that was used before, or the
\* zeroed one at the lowest address (zeroed accounts are alike, so they are
\* taken in the order of their addresses).
Allocated ==
    {e \in Records : \/ rec[e].state # "zero"
                     \/ \A f \in Records : f < e => rec[f].state # "zero"}

InitializeCall(c, m, b, d, v, e, x, y) ==
    LET a == [signer |-> c.signer, initializer |-> c.named, mint |-> m,
              vault_account_bump |-> b,
              initializer_deposit_token_account |-> d,
              initializer_receive_token_account |-> v,
              escrow_account |-> e,
              initializer_amount |-> x, taker_amount |-> y]
    IN  Execute("initialize", a, initialize_escrow(InitializeEscrow(Begin, a), a))

\* While no account exists at the vault address: an Initialize signed by the
\* key it names, with the canonical bump, over every mint, account, escrow
\* account and amount. Otherwise one that `init` or the signer check rejects
\* before any other account is read: not signed by the key it names, carrying
\* another bump, or issued while the vault address is in use.
DoInitialize ==
    /\ Admitting
    /\ UNCHANGED race
    /\ \E e \in Allocated :
        \/ /\ ~tok[VaultAddress].exists
           /\ \E k \in Keys, m \in Mints, d \in DealAccounts,
                 v \in DealAccounts, x \in Amounts, y \in Amounts :
                InitializeCall([signer |-> k, named |-> k], m, "canonical",
                               d, v, e, x, y)
        \/ \E c \in Callers, b \in Bumps :
                /\ \/ c.signer # c.named
                   \/ b # "canonical"
                   \/ tok[VaultAddress].exists
                /\ InitializeCall(c, "A", b, "iDep", "iRec", e,
                                  MaxAmount, MaxAmount)

DoCancel ==
    /\ Admitting
    /\ UNCHANGED race
    /\ \E c \in Callers, e \in Records, v \in TokenAccounts :
      \E d \in Bound(rec[e].initializer_deposit_token_account, DealAccounts),
         va \in Authorities(c.signer) :
        LET a == [signer |-> c.signer, initializer |-> c.named,
                  initializer_deposit_token_account |-> d,
                  vault_account |-> v, vault_authority |-> va,
                  escrow_account |-> e]
        IN  Execute("cancel", a, cancel_escrow(CancelEscrow(Begin, a), a))

ExchangeCall(c, e, td, tr, b, v, va) ==
    LET a == [signer |-> c.signer, taker |-> c.named,
              taker_deposit_token_account |-> td,
              taker_receive_token_account |-> tr,
              initializer_deposit_token_account |-> b.dep,
              initializer_receive_token_account |-> b.rcv,
              initializer |-> b.key,
              escrow_account |-> e,
              vault_account |-> v, vault_authority |-> va]
    IN  Execute("exchange", a, exchange(Exchange(Begin, a), a))

\* An Exchange against an open Record, signed by the taker it names and
\* naming the initializer's accounts and key as stored, over every account it
\* can pay from, receive into and name as the vault; or one that is not signed
\* by its taker, names another account or key of the initializer, or names an
\* escrow account holding no Record (rejected for that whatever else it names).
DoExchange ==
    /\ Admitting
    /\ UNCHANGED race
    /\ \E e \in Records :
        \/ /\ rec[e].state = "open"
           /\ \E k \in Keys, td \in PayAccounts, tr \in UserAccounts,
                 v \in TokenAccounts :
                \E va \in Authorities(k) :
                    ExchangeCall([signer |-> k, named |-> k], e, td, tr,
                                 Stored(e), v, va)
        \/ \E c \in Callers, b \in Bindings(e) :
                /\ \/ c.signer # c.named
                   \/ b # Stored(e)
                   \/ rec[e].state # "open"
                /\ ExchangeCall(c, e, "tDep", "tRec", b, VaultAddress,
                                vault_authority)

\* A key holder calls the ledger directly on the vault: pays into it, or
\* tries to pay out of it.
DoTransfer ==
    /\ Admitting
    /\ UNCHANGED race
    /\ \E k \in Keys, x \in UserAccounts, into \in BOOLEAN, n \in 1..MaxAmount :
        LET a == [signer |-> k,
                  from |-> IF into THEN x ELSE VaultAddress,
                  to |-> IF into THEN VaultAddress ELSE x,
                  amount |-> n]
        IN  Execute("transfer", a,
                    transfer(Begin, a.from, a.to, a.signer, {a.signer}, a.amount))

\* A key holder asks the ledger to hand it the vault.
DoSetAuthority ==
    /\ Admitting
    /\ UNCHANGED race
    /\ \E k \in Keys :
        LET a == [signer |-> k, account |-> VaultAddress, new_authority |-> k]
        IN  Execute("set_authority", a,
                    set_authority(Begin, a.account, a.signer, {a.signer},
                                  a.new_authority))

\* A key holder asks the ledger to close the vault.
DoCloseAccount ==
    /\ Admitting
    /\ UNCHANGED race
    /\ \E k \in Keys :
        LET a == [signer |-> k, account |-> VaultAddress]
        IN  Execute("close_account", a,
                    close_account(Begin, a.account, a.signer, {a.signer}))

\* The outcome was reported; the host admits the next transaction.
Settle ==
    /\ last.op # "none"
    /\ last' = Idle
    /\ pre' = [tok |-> tok, rec |-> rec]
    /\ UNCHANGED <<tok, rec, closes, race>>

InitialOwner == [x \in UserAccounts |-> IF x \in {"iDep", "iRec"} THEN "I" ELSE "T"]
InitialMint == [x \in UserAccounts |-> IF x = "iRec" THEN "B" ELSE "A"]
InitialAmount == [x \in UserAccounts |-> IF x \in {"iDep", "tDep"} THEN MaxAmount ELSE 0]

Init ==
    /\ tok = [x \in TokenAccounts |->
                IF x = VaultAddress THEN NoToken
                ELSE Token(InitialMint[x], InitialOwner[x], InitialAmount[x])]
    /\ rec = [e \in Records |-> NoRecord("zero")]
    /\ last = Idle
    /\ pre = [tok |-> tok, rec |-> rec]
    /\ closes = [e \in Records |-> 0]
    /\ race = NoRace

Next ==
    \/ DoInitialize
    \/ DoCancel
    \/ DoExchange
    \/ DoTransfer
    \/ DoSetAuthority
    \/ DoCloseAccount
    \/ Settle

Spec == Init /\ [][Next]_vars

\* ------------------------------------------------------------------ race
\* The Cancel the initializer of the open Record e signs: the stored deposit
\* account, the vault and the derived address.
CancelOf(e) ==
    [signer |-> rec[e].initializer_key, initializer |-> rec[e].initializer_key,
     initializer_deposit_token_account |->
         rec[e].initializer_deposit_token_account,
     vault_account |-> VaultAddress, vault_authority |-> vault_authority,
     escrow_account |-> e]

\* An Exchange key k signs against the open Record e.
ExchangeOf(e, k, td, tr, v, va) ==
    [signer |-> k, taker |-> k,
     taker_deposit_token_account |-> td,
     taker_receive_token_account |-> tr,
     initializer_deposit_token_account |->
         rec[e].initializer_deposit_token_account,
     initializer_receive_token_account |->
         rec[e].initializer_receive_token_account,
     initializer |-> rec[e].initializer_key,
     escrow_account |-> e,
     vault_account |-> v, vault_authority |-> va]

\* What instruction `op` with accounts `a` returns when it starts from `s`.
Outcome(op, a, s) ==
    IF op = "cancel" THEN cancel_escrow(CancelEscrow(s, a), a)
    ELSE exchange(Exchange(s, a), a)

\* The initializer's Cancel and a taker's Exchange reach the host together.
Submit ==
    /\ Admitting
    /\ ~race.submitted
    /\ \E e \in Records :
        /\ rec[e].state = "open"
        /\ \E k \in Keys \ {rec[e].initializer_key}, td \in PayAccounts,
              tr \in UserAccounts, v \in TokenAccounts :
            \E va \in Authorities(k) :
                race' = [submitted |-> TRUE,
                         cancel |-> CancelOf(e),
                         exchange |-> ExchangeOf(e, k, td, tr, v, va),
                         pending |-> {"cancel", "exchange"},
                         won |-> {},
                         tok |-> tok, rec |-> rec]
    /\ UNCHANGED <<tok, rec, last, pre, closes>>

\* Both write the escrow account, so the host's account locks run them one
\* after the other, in either order, each as one atomic transaction.
Admit ==
    /\ Admitting
    /\ \E op \in race.pending :
        LET s == Outcome(op, race[op], Begin)
        IN  /\ Execute(op, race[op], s)
            /\ race' = [race EXCEPT !.pending = @ \ {op},
                                    !.won = IF s.ok THEN @ \cup {op} ELSE @]

\* Before the two are submitted, deals are opened and key holders pay into
\* the vault.
RaceDeal == ~race.submitted /\ DoInitialize
RaceDeposit == ~race.submitted /\ DoTransfer

RaceNext == RaceDeal \/ RaceDeposit \/ Submit \/ Admit \/ Settle

RaceSpec == Init /\ [][RaceNext]_vars

\* ---------------------------------------------------------------- claims
\* The last transaction was instruction `op`.
Ran(op) == last.op = op
Succeeded(op) == last.op = op /\ last.ok
\* The escrow account the last instruction named, as it was before it ran.
Named == pre.rec[last.a.escrow_account]
\* Every token account and every escrow account is as it was before.
Untouched == tok = pre.tok /\ rec = pre.rec

\* C1: against one Record at most one Cancel or Exchange ever succeeds; once
\* one has, the Record is closed for good and every later Cancel or Exchange
\* that names it fails.
C1_AtMostOneSuccess ==
    \A e \in Records :
        /\ closes[e] <= 1
        /\ closes[e] = 1 => rec[e].state = "closed"
        /\ ( /\ last.op \in {"cancel", "exchange"}
             /\ last.a.escrow_account = e
             /\ pre.rec[e].state = "closed" ) => ~last.ok

\* A Cancel or Exchange, signed and well formed, reached the check of the
\* escrow account of a Record that was consumed before, and was rejected there.
C1_SecondAttemptRejected ==
    /\ last.op \in {"cancel", "exchange"}
    /\ closes[last.a.escrow_account] = 1
    /\ ~last.ok
    /\ last.err = "AccountDiscriminatorMismatch"

\* C2: after a successful Exchange (by another key than the initializer, of
\* positive amounts, the taker's two accounts and the initializer's deposit
\* account being three accounts) the initializer's
\* deposit account has gained taker_amount, the taker's receive account has
\* gained initializer_amount, and neither the vault nor the Record exists.
C2_ExchangeSwapsAndDestroys ==
    ( /\ Succeeded("exchange")
      /\ last.a.taker # Named.initializer_key
      /\ Named.initializer_amount > 0
      /\ Named.taker_amount > 0
      /\ Cardinality({last.a.taker_deposit_token_account,
                      last.a.taker_receive_token_account,
                      last.a.initializer_deposit_token_account}) = 3 ) =>
        LET d == last.a.initializer_deposit_token_account
            r == last.a.taker_receive_token_account
        IN  /\ tok[d].amount = pre.tok[d].amount + Named.taker_amount
            /\ tok[r].amount = pre.tok[r].amount + Named.initializer_amount
            /\ ~tok[VaultAddress].exists
            /\ rec[last.a.escrow_account].state = "closed"

\* C3: a successful Exchange credits taker_amount to the account stored as
\* initializer_receive_token_account (when that is not one of the accounts the
\* Exchange moves tokens through).
C3_PaymentToReceiveAccount ==
    ( /\ Succeeded("exchange")
      /\ last.a.taker # Named.initializer_key
      /\ Named.initializer_receive_token_account \notin
            {last.a.taker_deposit_token_account,
             last.a.taker_receive_token_account,
             last.a.initializer_deposit_token_account,
             last.a.vault_account} ) =>
        LET v == Named.initializer_receive_token_account
        IN  tok[v].amount = pre.tok[v].amount + Named.taker_amount

\* C4: after a successful Cancel the initializer's deposit account has gained
\* exactly initializer_amount and every other token account that still exists
\* is as it was.
C4_CancelRefundsOnly ==
    Succeeded("cancel") =>
        LET d == last.a.initializer_deposit_token_account
        IN  /\ tok[d].amount = pre.tok[d].amount + Named.initializer_amount
            /\ \A x \in TokenAccounts \ {d} : tok[x].exists => tok[x] = pre.tok[x]

\* A Cancel refunded a positive deposit while the taker held tokens.
C4_Refunded ==
    /\ Succeeded("cancel")
    /\ Named.initializer_amount > 0
    /\ Named.initializer_amount # Named.taker_amount
    /\ tok["tDep"].amount > 0

\* C5: after a successful Initialize the vault holds initializer_amount, its
\* authority is the derived address, and the five fields of the Record are the
\* inputs of the call.
C5_InitializePost ==
    Succeeded("initialize") =>
        /\ tok[VaultAddress] =
               Token(last.a.mint, vault_authority, last.a.initializer_amount)
        /\ rec[last.a.escrow_account] =
               [state |-> "open",
                initializer_key |-> last.a.initializer,
                initializer_deposit_token_account |->
                    last.a.initializer_deposit_token_account,
                initializer_receive_token_account |->
                    last.a.initializer_receive_token_account,
                initializer_amount |-> last.a.initializer_amount,
                taker_amount |-> last.a.taker_amount]

\* An Initialize locked a positive deposit against a different asking amount.
C5_Initialized ==
    /\ Succeeded("initialize")
    /\ last.a.initializer_amount > 0
    /\ last.a.taker_amount # last.a.initializer_amount
    /\ last.a.initializer_receive_token_account #
           last.a.initializer_deposit_token_account

\* C6: between operations a Record exists if and only if the vault exists,
\* holds exactly the Record's initializer_amount and has the derived address
\* as its authority.
C6_RecordIffVault ==
    /\ \A e \in Records :
          rec[e].state = "open" =>
              /\ tok[VaultAddress].exists
              /\ tok[VaultAddress].amount = rec[e].initializer_amount
              /\ tok[VaultAddress].owner = vault_authority
    /\ tok[VaultAddress].exists => \E e \in Records : rec[e].state = "open"

\* C7: a Cancel signed by a key other than the Record's initializer_key
\* fails and leaves every token account and the Record as they were.
C7_CancelByOtherFails ==
    ( /\ Ran("cancel")
      /\ Named.state = "open"
      /\ last.a.signer # Named.initializer_key ) => (~last.ok /\ Untouched)

\* Another key signed a Cancel in its own name against an open Record, with
\* the Record's deposit account, and was rejected by the key constraint.
C7_OtherKeyRejected ==
    /\ Ran("cancel")
    /\ Named.state = "open"
    /\ last.a.signer # Named.initializer_key
    /\ last.a.initializer = last.a.signer
    /\ last.a.initializer_deposit_token_account =
           Named.initializer_deposit_token_account
    /\ last.a.vault_account = VaultAddress
    /\ last.a.vault_authority = vault_authority
    /\ last.err = "ConstraintRaw"

\* C8: an Exchange whose taker deposit account holds less than the Record's
\* taker_amount fails before any ledger call is issued, and the token accounts,
\* the vault and the Record stay as they were.
C8_UnderfundedExchangeRejectedFirst ==
    ( /\ Ran("exchange")
      /\ Named.state = "open"
      /\ pre.tok[last.a.taker_deposit_token_account].amount < Named.taker_amount )
        => /\ ~last.ok
           /\ last.calls = 0
           /\ Untouched
           /\ rec[last.a.escrow_account].state = "open"

\* A taker signed an otherwise well-formed Exchange with too small a balance.
C8_Underfunded ==
    /\ Ran("exchange")
    /\ Named.state = "open"
    /\ pre.tok[last.a.taker_deposit_token_account].exists
    /\ pre.tok[last.a.taker_deposit_token_account].amount < Named.taker_amount
    /\ last.a.taker = last.a.signer
    /\ last.a.vault_account = VaultAddress
    /\ last.a.vault_authority = vault_authority
    /\ last.err = "ConstraintRaw"

\* The ledger calls an instruction makes when it returns Ok.
Steps(op) ==
    CASE op = "initialize" -> 2
      [] op = "cancel" -> 2
      [] op = "exchange" -> 3
      [] OTHER -> 1

\* C9: a failed Initialize, Cancel or Exchange, whatever step failed, leaves
\* every token account and every Record as before; a transaction that left any
\* trace returned Ok after every one of its ledger calls returned Ok, and a
\* Cancel or Exchange that did closed the vault account it named and the Record.
C9_FailureLeavesNoTrace ==
    /\ ~last.ok => Untouched
    /\ (last.op # "none" /\ ~Untouched) =>
          (last.ok /\ last.calls = Steps(last.op) /\ last.done = Steps(last.op))
    /\ (last.op \in {"cancel", "exchange"} /\ ~Untouched) =>
          /\ ~tok[last.a.vault_account].exists
          /\ rec[last.a.escrow_account].state = "closed"

\* An Exchange paid the initializer and released the vault, then failed at
\* the close of the vault.
C9_FailedAfterBothLegs ==
    /\ Ran("exchange")
    /\ ~last.ok
    /\ last.done = 2
    /\ Named.taker_amount > 0
    /\ Named.initializer_amount > 0

\* C10: an Initialize fails and changes nothing when the deposit account holds
\* less than initializer_amount, or the escrow account is not freshly zeroed,
\* or the initializer did not sign; so an open Record is never overwritten.
C10_InitializeRejected ==
    ( /\ Ran("initialize")
      /\ \/ pre.tok[last.a.initializer_deposit_token_account].amount
               < last.a.initializer_amount
         \/ Named.state # "zero"
         \/ last.a.signer # last.a.initializer ) => (~last.ok /\ Untouched)

\* An Initialize, signed and funded, with no vault in the way, named an escrow
\* account that was used before and was rejected for it.
C10_UsedAccountRejected ==
    /\ Ran("initialize")
    /\ Named.state # "zero"
    /\ last.err = "ConstraintZero"

\* C11: an Exchange against an open Record fails and leaves every token
\* account and every Record as they were whenever the initializer deposit
\* account, the initializer receive account or the initializer key it names
\* differs from the one stored in the Record, or its taker did not sign.
C11_MismatchedExchangeFails ==
    ( /\ Ran("exchange")
      /\ Named.state = "open"
      /\ \/ last.a.initializer_deposit_token_account #
                Named.initializer_deposit_token_account
         \/ last.a.initializer_receive_token_account #
                Named.initializer_receive_token_account
         \/ last.a.initializer # Named.initializer_key
         \/ last.a.signer # last.a.taker ) => (~last.ok /\ Untouched)

\* A funded taker signed an Exchange that names the real vault, the stored
\* deposit account and key, but another receive account, and was rejected by
\* the constraint.
C11_WrongReceiveRejected ==
    /\ Ran("exchange")
    /\ Named.state = "open"
    /\ last.a.signer = last.a.taker
    /\ last.a.initializer_deposit_token_account =
           Named.initializer_deposit_token_account
    /\ last.a.initializer # last.a.taker
    /\ last.a.initializer = Named.initializer_key
    /\ last.a.initializer_receive_token_account #
           Named.initializer_receive_token_account
    /\ pre.tok[last.a.taker_deposit_token_account].amount >= Named.taker_amount
    /\ Named.taker_amount > 0
    /\ pre.tok[VaultAddress].amount = Named.initializer_amount
    /\ last.err = "ConstraintRaw"

\* C12: a Record only moves from zeroed to open, by a successful Initialize
\* that names it, and from open to closed, by a successful Cancel or Exchange
\* that names it; a Cancel or Exchange against a zeroed or closed escrow account
\* fails; a closed one never changes again.
C12_Lifecycle ==
    /\ \A e \in Records :
          rec[e].state # pre.rec[e].state =>
              /\ last.ok
              /\ last.op \in {"initialize", "cancel", "exchange"}
              /\ last.a.escrow_account = e
              /\ IF last.op = "initialize"
                 THEN pre.rec[e].state = "zero" /\ rec[e].state = "open"
                 ELSE pre.rec[e].state = "open" /\ rec[e].state = "closed"
    /\ \A e \in Records : pre.rec[e].state = "closed" => rec[e] = pre.rec[e]
    /\ (last.op \in {"cancel", "exchange"} /\ Named.state # "open") => ~last.ok

\* A second deal ran its whole life: an Exchange closed an open Record while
\* the Record of an earlier deal stayed closed.
C12_SecondDealClosed ==
    /\ Succeeded("exchange")
    /\ Named.state = "open"
    /\ rec[last.a.escrow_account].state = "closed"
    /\ \E e \in Records \ {last.a.escrow_account} :
          pre.rec[e].state = "closed" /\ rec[e].state = "closed"

\* C13: after a successful Cancel or Exchange against a Record, the vault that
\* Initialize created and funded for it no longer exists, whatever account the
\* caller named as vault_account, and no account of the derived address holds
\* funds.
C13_VaultDestroyedWithRecord ==
    ( /\ last.op \in {"cancel", "exchange"}
      /\ last.ok
      /\ Named.state = "open"
      /\ Named.initializer_amount > 0
      /\ pre.tok[VaultAddress].exists
      /\ pre.tok[VaultAddress].owner = vault_authority
      /\ pre.tok[VaultAddress].amount = Named.initializer_amount )
        => /\ ~tok[VaultAddress].exists
           /\ \A x \in TokenAccounts :
                  tok[x].owner = vault_authority => tok[x].amount = 0

\* C14: a Record that is open before and after a transaction, successful or
\* failed, has the same initializer_amount, taker_amount, key and accounts
\* after it as before it: the fields keep the values Initialize wrote.
C14_FieldsFixed ==
    \A e \in Records :
        (pre.rec[e].state = "open" /\ rec[e].state = "open") =>
            rec[e] = pre.rec[e]

\* A Cancel of a positive deposit refunded it and then failed at the close of
\* the vault; the Record is still open.
C14_OpenAfterFailedCancel ==
    /\ Ran("cancel")
    /\ ~last.ok
    /\ last.done = 1
    /\ Named.state = "open"
    /\ Named.initializer_amount > 0
    /\ Named.taker_amount # Named.initializer_amount
    /\ rec[last.a.escrow_account].state = "open"

\* C15: the balance of a vault held by the derived address decreases, or the
\* vault disappears, only inside a successful Cancel or Exchange that names an
\* open Record, and then the vault is closed after paying out exactly that
\* Record's initializer_amount; no ledger call a key holder signs (transfer,
\* set_authority, close_account) and no failed instruction takes funds out of
\* it or changes its authority.
C15_VaultLeavesOnlyBySettlement ==
    ( /\ pre.tok[VaultAddress].exists
      /\ pre.tok[VaultAddress].owner = vault_authority
      /\ tok[VaultAddress] # pre.tok[VaultAddress] ) =>
        \/ /\ last.ok
           /\ last.op \in {"cancel", "exchange"}
           /\ last.a.vault_account = VaultAddress
           /\ Named.state = "open"
           /\ pre.tok[VaultAddress].amount = Named.initializer_amount
           /\ ~tok[VaultAddress].exists
        \/ /\ tok[VaultAddress].exists
           /\ tok[VaultAddress].owner = vault_authority
           /\ tok[VaultAddress].mint = pre.tok[VaultAddress].mint
           /\ tok[VaultAddress].amount > pre.tok[VaultAddress].amount

\* A key holder signed a ledger call that takes from a funded vault of the
\* derived address (a transfer out of it, a change of its authority, or an
\* Exchange paying from it) and the ledger refused it for the owner.
C15_DirectGrabRefused ==
    /\ last.op \in {"transfer", "set_authority", "exchange"}
    /\ pre.tok[VaultAddress].exists
    /\ pre.tok[VaultAddress].amount > 0
    /\ \/ last.op = "transfer" /\ last.a.from = VaultAddress
                               /\ last.a.amount <= pre.tok[VaultAddress].amount
       \/ last.op = "set_authority"
       \/ last.op = "exchange" /\ last.a.taker_deposit_token_account = VaultAddress
                               /\ Named.taker_amount > 0
    /\ last.err = "OwnerMismatch"
    /\ tok[VaultAddress] = pre.tok[VaultAddress]

\* Both transactions of the race were executed.
RaceOver == race.submitted /\ race.pending = {}
\* The state the two were submitted in, as a transaction in progress.
RaceStart == [Begin EXCEPT !.tok = race.tok, !.rec = race.rec]

\* C16: when a Cancel by the initializer and an Exchange by a taker that names
\* the vault and the derived address are submitted together against an open
\* Record of positive amounts, exactly one of them succeeds,
\* and the final balances are those of the winner run alone from the state
\* they were submitted in: the full refund (deposit account credited
\* initializer_amount, vault closed) or the full swap (vault closed, its
\* deposit released); never a payment without a release.
C16_RaceIsOneSerialOutcome ==
    ( /\ RaceOver
      /\ race.exchange.vault_account = VaultAddress
      /\ race.exchange.vault_authority = vault_authority
      /\ race.rec[race.cancel.escrow_account].initializer_amount > 0
      /\ race.rec[race.cancel.escrow_account].taker_amount > 0 ) =>
        LET e == race.cancel.escrow_account
            d == race.cancel.initializer_deposit_token_account
        IN  /\ Cardinality(race.won) = 1
            /\ \A op \in race.won :
                   /\ tok = Outcome(op, race[op], RaceStart).tok
                   /\ rec = Outcome(op, race[op], RaceStart).rec
            /\ ~tok[VaultAddress].exists
            /\ race.won = {"cancel"} =>
                   tok[d].amount =
                       race.tok[d].amount + race.rec[e].initializer_amount

\* C17: whenever a transaction takes the deposit out of a vault held by the
\* derived address, either it is released to the deposit account stored in the
\* Record, or the transaction is a successful Exchange against that Record in
\* which an account of the initializer stored in the Record (its deposit
\* account) is credited exactly the Record's taker_amount.
C17_DepositLeavesOnlyPaid ==
    ( /\ last.op # "none"
      /\ pre.tok[VaultAddress].exists
      /\ pre.tok[VaultAddress].owner = vault_authority
      /\ pre.tok[VaultAddress].amount > 0
      /\ \/ ~tok[VaultAddress].exists
         \/ tok[VaultAddress].amount < pre.tok[VaultAddress].amount ) =>
        LET d == Named.initializer_deposit_token_account
        IN  /\ last.ok
            /\ last.op \in {"cancel", "exchange"}
            /\ Named.state = "open"
            /\ \/ /\ last.op = "cancel"
                  /\ tok[d].amount =
                         pre.tok[d].amount + pre.tok[VaultAddress].amount
               \/ /\ last.op = "exchange"
                  /\ last.a.taker_receive_token_account = d
               \/ /\ last.op = "exchange"
                  /\ last.a.taker_deposit_token_account # d
                  /\ tok[d].amount = pre.tok[d].amount + Named.taker_amount
               \/ /\ last.op = "exchange"
                  /\ last.a.taker_deposit_token_account = d
                  /\ last.a.taker = Named.initializer_key
                  /\ tok[d].amount = pre.tok[d].amount

\* Another key than the initializer took a positive deposit out of the vault
\* into its own account by an Exchange, against a positive payment.
C17_TakerPaidForDeposit ==
    /\ Succeeded("exchange")
    /\ last.a.vault_account = VaultAddress
    /\ last.a.taker # Named.initializer_key
    /\ Named.initializer_amount > 0
    /\ Named.taker_amount > 0
    /\ Named.initializer_receive_token_account #
           Named.initializer_deposit_token_account
    /\ last.a.taker_receive_token_account #
           Named.initializer_deposit_token_account
    /\ ~tok[VaultAddress].exists

\* C18: at most one vault, and so at most one open Record, exists at any
\* time; an Initialize issued while a vault exists fails and changes nothing;
\* an Initialize succeeds only when no vault and no open Record exists, every
\* earlier deal having been closed by a successful Cancel or Exchange.
C18_OneDealAtATime ==
    /\ Cardinality({e \in Records : rec[e].state = "open"}) <= 1
    /\ Cardinality({x \in TokenAccounts :
                        tok[x].exists /\ tok[x].owner = vault_authority}) <= 1
    /\ (Ran("initialize") /\ pre.tok[VaultAddress].exists) =>
           (~last.ok /\ Untouched)
    /\ Succeeded("initialize") =>
           /\ ~pre.tok[VaultAddress].exists
           /\ \A e \in Records :
                  \/ pre.rec[e].state = "zero"
                  \/ pre.rec[e].state = "closed" /\ closes[e] = 1

\* An Initialize signed by the key it names, with the canonical bump and a
\* zeroed escrow account, was rejected because the vault of an open deal
\* occupies the address.
C18_SecondDealRejected ==
    /\ Ran("initialize")
    /\ last.a.signer = last.a.initializer
    /\ last.a.vault_account_bump = "canonical"
    /\ Named.state = "zero"
    /\ pre.tok[VaultAddress].exists
    /\ \E e \in Records : pre.rec[e].state = "open"
    /\ last.err = "AccountAlreadyInUse"

\* The tokens of mint m that account x of ledger t holds.
Held(t, m, x) == IF t[x].exists /\ t[x].mint = m THEN t[x].amount ELSE 0

\* The tokens of mint m held by all the accounts of ledger t.
Supply(t, m) ==
    Held(t, m, "iDep") + Held(t, m, "iRec") + Held(t, m, "tDep")
        + Held(t, m, "tRec") + Held(t, m, VaultAddress)

\* The tokens of each mint the accounts start with.
InitialSupply ==
    [m \in Mints |->
        Supply([x \in TokenAccounts |->
                   IF x = VaultAddress THEN NoToken
                   ELSE Token(InitialMint[x], InitialOwner[x], InitialAmount[x])],
               m)]

\* C19: for each mint, the balances of all token accounts, the vault included,
\* add up to the same total after every transaction, successful or failed, as
\* before it, and so to the total the accounts started with; an account that
\* a transaction closed took no tokens with it.
C19_Conservation ==
    \A m \in Mints :
        /\ Supply(tok, m) = Supply(pre.tok, m)
        /\ Supply(tok, m) = InitialSupply[m]

\* A Cancel refunded the deposit and was then refused the close of a vault
\* that still held tokens.
C19_CloseWithBalanceRefused ==
    /\ Ran("cancel")
    /\ last.a.vault_account = VaultAddress
    /\ Named.initializer_amount > 0
    /\ pre.tok[VaultAddress].amount > Named.initializer_amount
    /\ last.err = "NonNativeHasBalance"

\* C20: in every reachable state in which a Record is open, the Cancel signed
\* by the Record's initializer_key with the Record's deposit account, the
\* vault and the derived address succeeds; in particular right after a
\* ledger call signed by another key than the initializer's, made while the
\* vault held exactly the Record's positive initializer_amount.
C20_CancelAlwaysSucceeds ==
    \A e \in Records :
        ( /\ rec[e].state = "open"
          /\ rec[e].initializer_amount > 0
          /\ pre.rec[e] = rec[e]
          /\ pre.tok[VaultAddress].exists
          /\ pre.tok[VaultAddress].owner = vault_authority
          /\ pre.tok[VaultAddress].amount = rec[e].initializer_amount
          /\ last.op = "transfer" => last.a.signer # rec[e].initializer_key )
            => Outcome("cancel", CancelOf(e), Begin).ok
====
